---- MODULE Spec2Model ----
(***************************************************************************)
(* Captcha widget handler (composables/useCaptchaHandler.ts), the captcha  *)
(* store (store/useCaptchaStore.ts) and the VKCaptcha component, modelled  *)
(* as a state machine of one browser page session: the handler operations, *)
(* the timers they schedule, the vendor script's events and the vendor     *)
(* widget callbacks are the actions.                                       *)
(***************************************************************************)
EXTENDS Integers, Sequences, FiniteSets, TLC

\* ---------------------------------------------------------------- bounds
MaxCalls == 2
MaxWidgets == 2
MaxTimers == 1
MaxPending == 2

Instances == {"a", "b"}
Handlers == {"h1", "h2"}
Tokens == {"t1", "t2"}

\* ---------------------------------------------------------------- values
Null == "null"
Undefined == 0
NullError == [tag |-> "null", message |-> ""]
LoadError == [tag |-> "Error", message |-> "Error al cargar el script de Turnstile"]
TimeoutError == [tag |-> "Error", message |-> "Timeout esperando a Turnstile API"]
\* what the vendor passes to the error callback: an Error, or a string such as an error code
RawErrors == {[tag |-> "Error", message |-> "e1"], [tag |-> "string", message |-> "e1"]}

\* error instanceof Error ? error : new Error(String(error))
NormalizeError(e) == IF e.tag = "Error" THEN e ELSE [tag |-> "Error", message |-> e.message]

\* obj[k] = v and delete obj[k] on a JavaScript record
Put(f, k, v) == [x \in (DOMAIN f) \cup {k} |-> IF x = k THEN v ELSE f[x]]
Del(f, k) == [x \in (DOMAIN f) \ {k} |-> f[x]]
EmptyRecord == [x \in {} |-> Null]

\* JavaScript truthiness of a token (string | null)
Truthy(t) == t # Null /\ t # ""

\* ---------------------------------------------------------------- captcha store
StoreInit == [isInitialized |-> FALSE, isVerifying |-> FALSE, hasError |-> FALSE,
              error |-> NullError, tokens |-> EmptyRecord, verified |-> EmptyRecord]

isVerified(s, i) == i \in DOMAIN s.verified /\ s.verified[i]

getToken(s, i) == IF i \in DOMAIN s.tokens /\ Truthy(s.tokens[i]) THEN s.tokens[i] ELSE Null

setInitialized(s, v) == [s EXCEPT !.isInitialized = v]

setVerifying(s, v) == [s EXCEPT !.isVerifying = v]

setToken(s, i, t) ==
  IF Truthy(t)
  THEN [s EXCEPT !.tokens = Put(@, i, t), !.verified = Put(@, i, TRUE),
                 !.hasError = FALSE, !.error = NullError]
  ELSE [s EXCEPT !.tokens = Put(@, i, t), !.verified = Put(@, i, FALSE)]

setError(s, e) == [s EXCEPT !.hasError = (e # NullError), !.error = e]

\* clearToken clearing the token of every instance
clearToken_All(s, i) ==
  [s EXCEPT !.tokens = [x \in (DOMAIN @) \cup {i} |-> Null],
            !.verified = [x \in (DOMAIN @) \cup {i} |-> FALSE]]

\* clearToken deleting the entry of the instance
clearToken_Delete(s, i) == [s EXCEPT !.tokens = Del(@, i), !.verified = Del(@, i)]

clearToken(s, i) == [s EXCEPT !.tokens = Put(@, i, Null), !.verified = Put(@, i, FALSE)]

\* reset() of the store
store_reset(s) == StoreInit

setVerified(s, i, v) == [s EXCEPT !.verified = Put(@, i, v)]

\* ---------------------------------------------------------------- apiCoreService
genericError == [statusCode |-> 500, status |-> FALSE, code |-> Null,
                 detail |-> "Unknown error", data |-> "{}"]

\* params.useAuth (a boolean, or left out), params.method and params.payload
UseAuths == {"undefined", "true", "false"}
Methods == {"GET", "POST"}
Payloads == {"undefined", "p1"}
ApiParams == [useAuth : UseAuths, method : Methods, payload : Payloads]

\* what response.json() gives: a rejection (the body is not JSON), the JSON value null,
\* or an object with status, detail, data and possibly code
BodyObjects ==
  [status : BOOLEAN, detail : {"d1"}, data : {"{}"}]
    \cup [status : BOOLEAN, detail : {"d1"}, data : {"{}"}, code : {"", "error"}]
NoBody == [status |-> FALSE, detail |-> "d1", data |-> "{}"]
Jsons ==
  {[kind |-> "rejects", obj |-> NoBody], [kind |-> "null", obj |-> NoBody]}
    \cup {[kind |-> "object", obj |-> o] : o \in BodyObjects}

\* what fetch gives: a rejection, or a response with its HTTP status and its body
HttpStatuses == {200, 401}
Fetches ==
  {[kind |-> "rejects", status |-> 200, json |-> [kind |-> "rejects", obj |-> NoBody]]}
    \cup {[kind |-> "response", status |-> st, json |-> j] : st \in HttpStatuses, j \in Jsons}

\* localStorage.getItem('auth.token') and the outcome of fetch
AuthTokens == {"test-token", Null}
ApiEnvs == [token : AuthTokens, fetch : Fetches]

\* params.useAuth === undefined ? true : params.useAuth
useAuthOf(params) == params.useAuth \in {"undefined", "true"}

\* the headers with the Authorization header whatever useAuth says
requestHeaders_AlwaysAuth(useAuth, token) ==
  [ContentType |-> "application/json", Accept |-> "application/json",
   Authorization |-> "JWT " \o token]

\* the headers of the request
requestHeaders(useAuth, token) ==
  IF useAuth
  THEN [ContentType |-> "application/json", Accept |-> "application/json",
        Authorization |-> "JWT " \o token]
  ELSE [ContentType |-> "application/json", Accept |-> "application/json"]

\* fetchParams: the body is JSON.stringify(params.payload || {}) unless the method is GET
fetchParams(params, headers) ==
  IF params.method # "GET"
  THEN [method |-> params.method, headers |-> headers,
        body |-> IF params.payload = "undefined" THEN "{}" ELSE params.payload]
  ELSE [method |-> params.method, headers |-> headers]

\* a catch block that lets the error go on to the caller
requestCatch_Rethrow(sent) ==
  [sent |-> sent, pushes |-> <<>>, settled |-> "rejected", value |-> genericError]

\* the catch block of request: log and return the generic error
requestCatch(sent) ==
  [sent |-> sent, pushes |-> <<>>, settled |-> "resolved", value |-> genericError]

\* apiCoreService.request(url, params) with the stored token and the outcome of fetch of
\* env: the calls of fetch, the calls of router.push, and how the promise settles
request(params, env) ==
  LET useAuth == useAuthOf(params)
      headers == requestHeaders(useAuth, env.token)
      sent == <<fetchParams(params, headers)>>
      response == env.fetch
      responseJson == response.json.obj IN
  IF response.kind = "rejects" \/ response.json.kind # "object"
  THEN requestCatch(sent)
  ELSE [sent |-> sent,
        pushes |-> IF useAuth /\ response.status = 401 THEN <<"/logout">> ELSE <<>>,
        settled |-> "resolved",
        value |-> [statusCode |-> response.status, status |-> responseJson.status,
                   code |-> IF "code" \in DOMAIN responseJson /\ responseJson.code # ""
                            THEN responseJson.code ELSE Null,
                   detail |-> responseJson.detail, data |-> responseJson.data]]

ApiIdle == [phase |-> "idle"]

\* ---------------------------------------------------------------- useTranslations
MaxEntries == 3

\* a value that may be undefined: an object of parameters, or undefined
JsUndefined == [def |-> FALSE, obj |-> EmptyRecord]
Defined(f) == [def |-> TRUE, obj |-> f]

\* { ...a, ...b }
Spread(a, b) == [k \in (DOMAIN a) \cup (DOMAIN b) |-> IF k \in DOMAIN b THEN b[k] ELSE a[k]]

\* the keys of a source and of itemsParams, and the item keys getItemParams is called with
KeyStrings == {"0", "1", "2", "01", "a"}
NaN == [nan |-> TRUE, n |-> 0]
Num(n) == [nan |-> FALSE, n |-> n]

\* parseInt(k, 10)
parseInt(k) ==
  CASE k = "0" -> Num(0)
    [] k = "1" -> Num(1)
    [] k = "2" -> Num(2)
    [] k = "3" -> Num(3)
    [] k = "01" -> Num(1)
    [] OTHER -> NaN

StringKey(k) == [type |-> "string", s |-> k, n |-> 0]
NumberKey(n) == [type |-> "number", s |-> "", n |-> n]
ItemKeys == {StringKey(k) : k \in KeyStrings} \cup {NumberKey(n) : n \in -1..MaxEntries}

\* options.params and options.itemsParams
ParamsOptions == {JsUndefined, Defined(EmptyRecord), Defined([n |-> "g", k |-> "g"])}
NoItemsParams == [kind |-> "undefined", arr |-> <<>>, obj |-> EmptyRecord]
ItemsParamsOptions ==
  {NoItemsParams,
   [kind |-> "array", arr |-> <<>>, obj |-> EmptyRecord],
   [kind |-> "array", arr |-> <<[n |-> "i0"], [n |-> "i1", j |-> "i1"]>>, obj |-> EmptyRecord],
   [kind |-> "object", arr |-> <<>>, obj |-> EmptyRecord],
   [kind |-> "object", arr |-> <<>>, obj |-> ("1" :> [n |-> "i1"] @@ "a" :> [j |-> "ia"])]}

\* isValidObject on options.itemsParams
isValidObject(ip) == ip.kind = "object" /\ DOMAIN ip.obj # {}

\* getItemParams taking the parameters of the item alone
getItemParams_NoMerge(itemKey, options) ==
  LET ip == options.itemsParams IN
  IF ip.kind = "undefined" THEN options.params
  ELSE IF ip.kind = "array"
  THEN LET index == IF itemKey.type = "string" THEN parseInt(itemKey.s) ELSE Num(itemKey.n) IN
       IF ~index.nan /\ index.n >= 0 /\ index.n < Len(ip.arr)
       THEN Defined(ip.arr[index.n + 1])
       ELSE options.params
  ELSE IF isValidObject(ip) /\ itemKey.type = "string" /\ itemKey.s \in DOMAIN ip.obj
  THEN Defined(ip.obj[itemKey.s])
  ELSE options.params

getItemParams(itemKey, options) ==
  LET ip == options.itemsParams IN
  IF ip.kind = "undefined" THEN options.params
  ELSE IF ip.kind = "array"
  THEN LET index == IF itemKey.type = "string" THEN parseInt(itemKey.s) ELSE Num(itemKey.n) IN
       IF ~index.nan /\ index.n >= 0 /\ index.n < Len(ip.arr)
       THEN Defined(Spread(options.params.obj, ip.arr[index.n + 1]))
       ELSE options.params
  ELSE IF isValidObject(ip) /\ itemKey.type = "string" /\ itemKey.s \in DOMAIN ip.obj
  THEN Defined(Spread(options.params.obj, ip.obj[itemKey.s]))
  ELSE options.params

\* the options getItemParams reads
ItemOptions == [params : ParamsOptions, itemsParams : ItemsParamsOptions]

\* the messages of a locale ("" is the empty message) and the values tm() holds under a
\* key: a message, or an object of messages
Msgs == {"", "m1", "m2"}
Leaf(m) == [kind |-> "leaf", msg |-> m, props |-> EmptyRecord]
ObjectValue(f) == [kind |-> "object", msg |-> "", props |-> f]
SourceValues ==
  {Leaf(""), Leaf("m1"), ObjectValue([title |-> "m1"]), ObjectValue([title |-> "m2"])}

\* the keys that are array indices: Object.entries lists them first, in ascending order,
\* and the other keys after them in the order they were written
IndexKeys == {"0", "1", "2", "3"}
ObjectKeys == {"1", "2", "01", "a"}
OwnKeyOrder(ks) ==
  \A i, j \in DOMAIN ks :
    i < j => /\ ks[i] # ks[j]
             /\ ks[j] \in IndexKeys =>
                  (ks[i] \in IndexKeys /\ parseInt(ks[i]).n < parseInt(ks[j]).n)

\* what tm(key) returns: an array, or an object, as its entries in the order of Object.entries
SourceEntry(k, v) == [key |-> k, value |-> v]
ArraySources ==
  UNION {{[kind |-> "array", entries |-> [i \in 1..n |-> SourceEntry(ToString(i - 1), vs[i])]] :
            vs \in [1..n -> SourceValues]} : n \in 0..MaxEntries}
ObjectSources ==
  UNION {{[kind |-> "object", entries |-> [i \in 1..n |-> SourceEntry(ks[i], vs[i])]] :
            ks \in {q \in [1..n -> ObjectKeys] : OwnKeyOrder(q)}, vs \in [1..n -> SourceValues]} :
         n \in 0..MaxEntries}
Sources == ArraySources \cup ObjectSources

\* ITranslationOptions; transform "mark" is the function transform below
TranslationOptions ==
  [specificKey : {"undefined", "1", "a"}, asArray : BOOLEAN, sortBy : {"undefined", "title"},
   reverse : BOOLEAN, transform : {"undefined", "mark"},
   params : {JsUndefined, Defined([n |-> "g", k |-> "g"])},
   itemsParams : {NoItemsParams,
                  [kind |-> "array", arr |-> <<[n |-> "i0"], [n |-> "i1", j |-> "i1"]>>,
                   obj |-> EmptyRecord],
                  [kind |-> "object", arr |-> <<>>,
                   obj |-> ("1" :> [n |-> "i1"] @@ "a" :> [j |-> "ia"])]}]
NoOptions ==
  [specificKey |-> "undefined", asArray |-> FALSE, sortBy |-> "undefined", reverse |-> FALSE,
   transform |-> "undefined", params |-> JsUndefined, itemsParams |-> NoItemsParams]

\* rt(message, params): the message rendered with the params
rt(message, params) == [msg |-> message, params |-> params]

\* the order of < on two rendered strings
Rank(rendered) ==
  CASE rendered.msg.msg = "" -> 0
    [] rendered.msg.msg = "m1" -> 1
    [] OTHER -> 2

\* translationData[key]
Lookup(source, key) ==
  LET hits == {i \in DOMAIN source.entries : source.entries[i].key = key} IN
  IF hits = {}
  THEN [found |-> FALSE, value |-> Leaf("")]
  ELSE [found |-> TRUE, value |-> source.entries[CHOOSE i \in hits : TRUE].value]

\* the truthiness of translationData[key]
TruthyValue(l) == l.found /\ (l.value.kind = "object" \/ l.value.msg # "")

\* itemParams || {}
OrEmpty(itemParams) == itemParams.obj

\* the mark a value carries when options.transform returned it: the key and the raw value
\* the function was called with
NoMark == [called |-> FALSE, key |-> "", raw |-> EmptyRecord]
Mark(key, raw) == [called |-> TRUE, key |-> key, raw |-> raw]

\* options.transform when given: a function that returns what it is handed marked with its
\* other two arguments, and that gives a record of the array path a title when it has none
transform(item, key, raw) ==
  IF "props" \in DOMAIN item
  THEN [item EXCEPT !.marked = Mark(key, raw),
                    !.props = IF "title" \in DOMAIN @ THEN @
                              ELSE Put(@, "title", rt(Leaf(""), EmptyRecord))]
  ELSE [item EXCEPT !.marked = Mark(key, raw)]

\* the array path returning the records it built without handing them to transform
processItem_NoTransform(entry, options) ==
  LET itemParams == getItemParams(StringKey(entry.key), options)
      itemValue == entry.value
      props == IF itemValue.kind = "object"
               THEN [k \in DOMAIN itemValue.props |->
                       rt(Leaf(itemValue.props[k]), OrEmpty(itemParams))]
               ELSE [value |-> rt(itemValue, OrEmpty(itemParams))] IN
  [id |-> entry.key, props |-> props, marked |-> NoMark]

\* one record of the array path: id and the translated properties, handed to transform
processItem(entry, options) ==
  LET itemParams == getItemParams(StringKey(entry.key), options)
      itemValue == entry.value
      props == IF itemValue.kind = "object"
               THEN [k \in DOMAIN itemValue.props |->
                       rt(Leaf(itemValue.props[k]), OrEmpty(itemParams))]
               ELSE [value |-> rt(itemValue, OrEmpty(itemParams))]
      processedItem == [id |-> entry.key, props |-> props, marked |-> NoMark] IN
  IF options.transform = "mark"
  THEN transform(processedItem, entry.key, itemValue)
  ELSE processedItem

\* one entry of the object path
processEntry(entry, options) ==
  LET itemParams == getItemParams(StringKey(entry.key), options)
      value == entry.value IN
  IF value.kind = "object"
  THEN [nested |-> TRUE,
        props |-> [k \in DOMAIN value.props |-> rt(Leaf(value.props[k]), OrEmpty(itemParams))]]
  ELSE [nested |-> FALSE, value |-> rt(value, OrEmpty(itemParams))]

\* the comparator of the sort by options.sortBy: < and > are false when a value is undefined
compareBySortBy(a, b, sortBy) ==
  LET has(x) == sortBy \in DOMAIN x.props IN
  IF has(a) /\ has(b) /\ Rank(a.props[sortBy]) < Rank(b.props[sortBy]) THEN -1
  ELSE IF has(a) /\ has(b) /\ Rank(a.props[sortBy]) > Rank(b.props[sortBy]) THEN 1
  ELSE 0

\* a comparator that orders nothing
compareById_Nothing(a, b) == 0

\* the comparator of the default sort, parseInt(a.id, 10) - parseInt(b.id, 10): NaN counts as 0
compareById(a, b) ==
  LET x == parseInt(a.id)
      y == parseInt(b.id) IN
  IF x.nan \/ y.nan THEN 0 ELSE x.n - y.n

IndexOrders(n) == {p \in [1..n -> 1..n] : \A i, j \in 1..n : i # j => p[i] # p[j]}

\* Array.prototype.sort, c[i, j] being what the comparator returns for the elements i and j:
\* the stable sorted order when the comparator is consistent on the elements; the order is
\* implementation-defined when it is not
SortOutcomes(items, c) ==
  LET n == Len(items)
      consistent ==
        \A i, j, k \in 1..n :
          /\ (c[i, j] = 0) = (c[j, i] = 0)
          /\ (c[i, j] < 0) = (c[j, i] > 0)
          /\ (c[i, j] = 0 /\ c[j, k] = 0) => c[i, k] = 0
          /\ (c[i, j] < 0 /\ c[j, k] < 0) => c[i, k] < 0
      sorted(p) ==
        \A x, y \in 1..n : x < y => (c[p[x], p[y]] < 0 \/ (c[p[x], p[y]] = 0 /\ p[x] < p[y])) IN
  IF consistent
  THEN {[x \in 1..n |-> items[p[x]]] : p \in {q \in IndexOrders(n) : sorted(q)}}
  ELSE {[x \in 1..n |-> items[p[x]]] : p \in IndexOrders(n)}

\* Array.prototype.reverse
ReverseOf(items) == [x \in 1..Len(items) |-> items[Len(items) + 1 - x]]

\* Array.isArray(translationData)
isArrayType(source) == source.kind = "array"

\* the detection of numeric keys switched off
isArrayLike_Never(source) == FALSE

\* every key of an object is numeric for parseInt
isArrayLike(source) ==
  ~isArrayType(source) /\ \A i \in DOMAIN source.entries : ~parseInt(source.entries[i].key).nan

ArrayOutput(items) == [shape |-> "array", items |-> items]
ObjectOutput(obj, marked) == [shape |-> "object", obj |-> obj, marked |-> marked]

\* processTranslations(key, options) when tm(key) is source: the results it can return
processTranslations(source, options) ==
  IF Len(source.entries) = 0
  THEN {IF options.asArray THEN ArrayOutput(<<>>) ELSE ObjectOutput(EmptyRecord, NoMark)}
  ELSE IF options.specificKey # "undefined" /\ TruthyValue(Lookup(source, options.specificKey))
  THEN LET itemParams == getItemParams(StringKey(options.specificKey), options)
           specificItem == Lookup(source, options.specificKey).value
           translatedValue == rt(specificItem, OrEmpty(itemParams)) IN
       {IF options.asArray
        THEN ArrayOutput(<<[id |-> options.specificKey, props |-> [value |-> translatedValue],
                            marked |-> NoMark]>>)
        ELSE ObjectOutput(options.specificKey :> [nested |-> FALSE, value |-> translatedValue],
                          NoMark)}
  ELSE IF isArrayType(source) \/ isArrayLike(source) \/ options.asArray
  THEN LET result == [i \in DOMAIN source.entries |-> processItem(source.entries[i], options)]
           bySortBy == [i, j \in DOMAIN result |->
                          compareBySortBy(result[i], result[j], options.sortBy)]
           byId == [i, j \in DOMAIN result |-> compareById(result[i], result[j])]
           sorted == IF options.sortBy # "undefined" THEN SortOutcomes(result, bySortBy)
                     ELSE IF isArrayLike(source) \/ isArrayType(source)
                     THEN SortOutcomes(result, byId)
                     ELSE {result} IN
       {ArrayOutput(IF options.reverse THEN ReverseOf(r) ELSE r) : r \in sorted}
  ELSE LET result == ObjectOutput(
                       [k \in {source.entries[i].key : i \in DOMAIN source.entries} |->
                          processEntry(source.entries[CHOOSE i \in DOMAIN source.entries :
                                                        source.entries[i].key = k], options)],
                       NoMark) IN
       {IF options.transform = "mark" THEN transform(result, "", source) ELSE result}

TrIdle == [phase |-> "idle"]

\* ---------------------------------------------------------------- state
\* ---------------------------------------------------------------- enrollment store and forms
\* the two enrollment actions, each with its own store and its own form component
Kinds == {"preEnroll", "enrollAsPartner"}

\* the captcha instance a form passes: 'pre-enrollment' is a, 'partner-enrollment' is b
InstanceOf(kind) == IF kind = "preEnroll" THEN "a" ELSE "b"

\* the enrollment store: _loading, _error, _statusCode, _messageCode
EnrollmentInit == [loading |-> FALSE, error |-> FALSE, statusCode |-> Null, messageCode |-> ""]

startSubmitting(es) ==
  [loading |-> TRUE, error |-> FALSE, statusCode |-> Null, messageCode |-> ""]

\* RESPONSE_CODES[code] || the error message code
messageCodeOf(code) == IF code = 200 THEN "success" ELSE "error"

\* finishSubmitting that leaves _loading as it is
finishSubmitting_KeepLoading(es, success, code) ==
  [loading |-> es.loading, error |-> ~success, statusCode |-> ToString(code),
   messageCode |-> messageCodeOf(code)]

finishSubmitting(es, success, code) ==
  [loading |-> FALSE, error |-> ~success, statusCode |-> ToString(code),
   messageCode |-> messageCodeOf(code)]

\* a slot of the requests in flight: free, or the token sent and whether handleSubmit
\* awaits the call
NoCall == [busy |-> FALSE, token |-> Null, submit |-> FALSE]
PendingCall(token, submit) == [busy |-> TRUE, token |-> token, submit |-> submit]
Slots == 1..MaxPending

\* a form: isSubmitting of the component, the enrollment store, the requests in flight
FormInit == [isSubmitting |-> FALSE, es |-> EnrollmentInit, pending |-> [p \in Slots |-> NoCall]]

InFlight(f) == {p \in Slots : f.pending[p].busy}
FreeSlot(f) == CHOOSE p \in Slots \ InFlight(f) : \A q \in Slots \ InFlight(f) : p <= q

\* the params testsApi.subscribeTests gives to apiCoreService.request
subscribeParams == [useAuth |-> "false", method |-> "POST", payload |-> "p1"]

VARIABLES
  store,            \* the pinia captcha store, shared by every handler
  turnstile,        \* 'turnstile' in window
  scriptTags,       \* number of vendor <script> elements appended to the document
  scriptState,      \* "absent" | "fetching" | "loaded" | "failed"
  onloadCb,         \* the call whose closure is window.onloadTurnstileCb (0: not set)
  cbCalled,         \* the vendor has invoked the onload callback
  postOnload,       \* the 1000 ms timer of script.onload is pending
  loadedCache,      \* per handler: the cached value of the computed isTurnstileLoaded
  calls,            \* the ensureInitialized() calls made so far
  turnstileWidgets, \* per handler: instance id -> widget id
  vendor,           \* the widgets the vendor has rendered, indexed by widget id
  recreateTimers,   \* the pending 100 ms timers of reset, in firing order
  last,             \* the operation that made the last step, and its outcome
  apiCall,          \* the last call of apiCoreService.request: its inputs and its outcome
  tr,               \* the last call of getItemParams or processTranslations, and its outcome
  forms             \* per enrollment form: isSubmitting, its store, the requests in flight

vars == <<store, turnstile, scriptTags, scriptState, onloadCb, cbCalled, postOnload,
          loadedCache, calls, turnstileWidgets, vendor, recreateTimers, last, apiCall, tr,
          forms>>

\* the state of the services and forms that the captcha handler does not touch
serviceVars == <<apiCall, tr, forms>>

loadVars == <<turnstile, scriptTags, scriptState, onloadCb, cbCalled, postOnload, calls>>
widgetVars == <<turnstileWidgets, vendor, recreateTimers>>

\* the record of a step: the operation, its instance id, and what it returned (ret, wid),
\* recorded as a widget handle, caught, threw, emitted from the component, passed to the
\* caller's error handler and asked of the vendor; for a success or expiry callback also
\* the token the instance had when the callback began
Ev(op, i) == [op |-> op, inst |-> i, call |-> 0, ret |-> "-", wid |-> Undefined,
              recorded |-> FALSE, before |-> "-", handler |-> "-",
              caught |-> FALSE, threw |-> FALSE, tok |-> "-", err |-> NullError,
              emits |-> <<>>, onError |-> <<>>, vendorCalls |-> <<>>]

Init ==
  /\ store = StoreInit
  /\ turnstile = FALSE
  /\ scriptTags = 0
  /\ scriptState = "absent"
  /\ onloadCb = 0
  /\ cbCalled = FALSE
  /\ postOnload = FALSE
  /\ loadedCache = [h \in Handlers |-> "unset"]
  /\ calls = <<>>
  /\ turnstileWidgets = [h \in Handlers |-> EmptyRecord]
  /\ vendor = <<>>
  /\ recreateTimers = <<>>
  /\ last = Ev("init", "-")
  /\ apiCall = ApiIdle
  /\ tr = TrIdle
  /\ forms = [kind \in Kinds |-> FormInit]

\* ---------------------------------------------------------------- isTurnstileLoaded
\* computed(() => typeof window !== 'undefined' && 'turnstile' in window): the getter
\* reads no reactive source, so the value of its first evaluation is kept.
isTurnstileLoaded(h) == IF loadedCache[h] = "unset" THEN turnstile ELSE loadedCache[h] = "true"

ReadLoaded(h) ==
  [loadedCache EXCEPT ![h] = IF @ = "unset" THEN (IF turnstile THEN "true" ELSE "false") ELSE @]

\* ---------------------------------------------------------------- script loading
\* a call of ensureInitialized(): its handler, how loadTurnstileScript went on, what the
\* call returned ("none" while its promise is pending), and the timers of its polling
NewCall(h, mode, result) ==
  [handler |-> h, mode |-> mode, result |-> result, interval |-> FALSE, timeout |-> FALSE]

\* ensureInitialized returning false without recording the error
EnsureCatch_NoRecord(s, e) == [store |-> s, result |-> "false"]

\* the catch block of ensureInitialized: record the error and return false
EnsureCatch(s, e) == [store |-> setError(s, NormalizeError(e)), result |-> "false"]

\* resolve() of the promise of loadTurnstileScript, and ensureInitialized resuming after
\* its await in the same turn of the event loop; a settled promise stays as it is
Resolve(st, c) ==
  IF st.calls[c].result = "none"
  THEN [st EXCEPT !.calls[c].result = "true"]
  ELSE st

\* reject(e), and ensureInitialized resuming in its catch block
Reject(st, c, e) ==
  IF st.calls[c].result = "none"
  THEN LET out == EnsureCatch(st.store, e) IN
       [st EXCEPT !.calls[c].result = out.result, !.store = out.store]
  ELSE st

\* the record of a step of script loading: the call that returned in this step, if any
Settled(before, after, c) ==
  IF c # 0 /\ before[c].result = "none" /\ after[c].result # "none"
  THEN [Ev("ensureInitialized", "-") EXCEPT !.call = c, !.ret = after[c].result]
  ELSE Ev("load", "-")

\* document.querySelector('script[src*="turnstile/v0/api.js"]')
existingScript == scriptTags > 0

\* loadTurnstileScript without the look-up of a script tag that is already there
loadTurnstileScript_NoLookup(h, c) ==
  IF isTurnstileLoaded(h)
  THEN [mode |-> "loaded", result |-> "true", inject |-> FALSE, poll |-> FALSE]
  ELSE [mode |-> "inject", result |-> "none", inject |-> TRUE, poll |-> FALSE]

\* loadTurnstileScript: what the promise executor does for call c of handler h
loadTurnstileScript(h, c) ==
  IF isTurnstileLoaded(h)
  THEN [mode |-> "loaded", result |-> "true", inject |-> FALSE, poll |-> FALSE]
  ELSE IF existingScript
  THEN [mode |-> "poll", result |-> "none", inject |-> FALSE, poll |-> TRUE]
  ELSE [mode |-> "inject", result |-> "none", inject |-> TRUE, poll |-> FALSE]

\* ensureInitialized()
EnsureInitialized(h) ==
  /\ Len(calls) < MaxCalls
  /\ LET c == Len(calls) + 1 IN
     IF store.isInitialized
     THEN /\ calls' = Append(calls, NewCall(h, "immediate", "true"))
          /\ last' = [Ev("ensureInitialized", "-") EXCEPT !.call = c, !.ret = "true"]
          /\ UNCHANGED <<serviceVars, store, turnstile, scriptTags, scriptState, onloadCb, cbCalled,
                         postOnload, loadedCache, widgetVars>>
     ELSE LET l == loadTurnstileScript(h, c) IN
          /\ loadedCache' = ReadLoaded(h)
          /\ calls' = Append(calls, [NewCall(h, l.mode, l.result)
                                       EXCEPT !.interval = l.poll, !.timeout = l.poll])
          /\ last' = IF l.result = "none" THEN Ev("load", "-")
                      ELSE [Ev("ensureInitialized", "-") EXCEPT !.call = c, !.ret = l.result]
          /\ onloadCb' = IF l.inject THEN c ELSE onloadCb
          /\ scriptTags' = IF l.inject THEN scriptTags + 1 ELSE scriptTags
          /\ scriptState' = IF l.inject THEN "fetching" ELSE scriptState
          /\ UNCHANGED <<serviceVars, store, turnstile, cbCalled, postOnload, widgetVars>>

\* the 100 ms interval of a call that found the script tag sees the vendor global
PollTick(c) ==
  /\ c \in 1..Len(calls)
  /\ calls[c].interval
  /\ turnstile
  /\ LET st == Resolve([calls |-> [calls EXCEPT ![c].interval = FALSE],
                        store |-> setInitialized(store, TRUE)], c) IN
     /\ store' = st.store
     /\ calls' = st.calls
     /\ last' = Settled(calls, st.calls, c)
  /\ UNCHANGED <<serviceVars, turnstile, scriptTags, scriptState, onloadCb, cbCalled, postOnload,
                 loadedCache, widgetVars>>

\* the 5000 ms timeout of a call that found the script tag
PollTimeout(c) ==
  /\ c \in 1..Len(calls)
  /\ calls[c].timeout
  /\ LET cleared == [calls EXCEPT ![c].interval = FALSE, ![c].timeout = FALSE]
         st == IF turnstile
               THEN Resolve([calls |-> cleared, store |-> setInitialized(store, TRUE)], c)
               ELSE Reject([calls |-> cleared, store |-> store], c, TimeoutError) IN
     /\ store' = st.store
     /\ calls' = st.calls
     /\ last' = Settled(calls, st.calls, c)
  /\ UNCHANGED <<serviceVars, turnstile, scriptTags, scriptState, onloadCb, cbCalled, postOnload,
                 loadedCache, widgetVars>>

\* the vendor script has been fetched and has run, attaching the vendor global or not;
\* script.onload schedules the check that runs 1000 ms later
ScriptOnload(api) ==
  /\ scriptState = "fetching"
  /\ scriptState' = "loaded"
  /\ turnstile' = (turnstile \/ api)
  /\ postOnload' = TRUE
  /\ last' = Ev("load", "-")
  /\ UNCHANGED <<serviceVars, store, scriptTags, onloadCb, cbCalled, loadedCache, calls, widgetVars>>

\* script.onerror: reject the promise of the call that injected the script
ScriptOnerror ==
  /\ scriptState = "fetching"
  /\ scriptState' = "failed"
  /\ LET st == Reject([calls |-> calls, store |-> store], onloadCb, LoadError) IN
     /\ store' = st.store
     /\ calls' = st.calls
     /\ last' = Settled(calls, st.calls, onloadCb)
  /\ UNCHANGED <<serviceVars, turnstile, scriptTags, onloadCb, cbCalled, postOnload, loadedCache,
                 widgetVars>>

\* the vendor invokes window.onloadTurnstileCb (the onload= parameter of the script URL)
OnloadTurnstileCb ==
  /\ scriptState = "loaded"
  /\ turnstile
  /\ ~cbCalled
  /\ cbCalled' = TRUE
  /\ LET st == Resolve([calls |-> calls, store |-> setInitialized(store, TRUE)], onloadCb) IN
     /\ store' = st.store
     /\ calls' = st.calls
     /\ last' = Settled(calls, st.calls, onloadCb)
  /\ UNCHANGED <<serviceVars, turnstile, scriptTags, scriptState, onloadCb, postOnload, loadedCache,
                 widgetVars>>

\* the timer of script.onload fires
PostOnloadCheck ==
  /\ postOnload
  /\ postOnload' = FALSE
  /\ LET st == IF ~store.isInitialized /\ turnstile
               THEN Resolve([calls |-> calls, store |-> setInitialized(store, TRUE)], onloadCb)
               ELSE [calls |-> calls, store |-> store] IN
     /\ store' = st.store
     /\ calls' = st.calls
     /\ last' = Settled(calls, st.calls, onloadCb)
  /\ UNCHANGED <<serviceVars, turnstile, scriptTags, scriptState, onloadCb, cbCalled, loadedCache,
                 widgetVars>>

\* ---------------------------------------------------------------- widgets
\* some ensureInitialized() has returned true: the component renders only after that
initialized == \E c \in 1..Len(calls) : calls[c].result = "true"

\* a widget after window.turnstile.remove(widgetId)
RemovedWidget == [inst |-> "-", kind |-> "-", live |-> FALSE]

LiveWidgets == {w \in 1..Len(vendor) : vendor[w].live}

\* a block without its try/catch
TryCatch_None(thrown) == [caught |-> FALSE, escaped |-> thrown]

\* try { ... } catch (error) { $logger.error(...) }: what becomes of an exception thrown
\* inside the block
TryCatch(thrown) == [caught |-> thrown, escaped |-> FALSE]

\* renderWidget(container, instanceId, onSuccess, onError, onExpired) on handler h; kind
\* names the callbacks passed ("mount": the component's, "recreate": those of reset);
\* throws: window.turnstile.render throws
renderWidget(h, i, kind, throws, tw, vend) ==
  IF ~isTurnstileLoaded(h)
  THEN [ret |-> Undefined, caught |-> FALSE, threw |-> FALSE, tw |-> tw, vendor |-> vend,
        vendorCalls |-> <<>>]
  ELSE IF throws
  THEN [ret |-> Undefined, caught |-> TryCatch(TRUE).caught, threw |-> TryCatch(TRUE).escaped,
        tw |-> tw, vendor |-> vend, vendorCalls |-> <<"render">>]
  ELSE LET widgetId == Len(vend) + 1 IN
       [ret |-> widgetId, caught |-> FALSE, threw |-> FALSE,
        tw |-> [tw EXCEPT ![h] = Put(@, i, widgetId)],
        vendor |-> Append(vend, [inst |-> i, kind |-> kind, live |-> TRUE]),
        vendorCalls |-> <<"render">>]

\* the component's onMounted, after ensureInitialized() returned true and nextTick
RenderWidget(h, i, throws) ==
  /\ initialized
  /\ Len(vendor) < MaxWidgets
  /\ throws => isTurnstileLoaded(h)
  /\ LET r == renderWidget(h, i, "mount", throws, turnstileWidgets, vendor) IN
     /\ turnstileWidgets' = r.tw
     /\ vendor' = r.vendor
     /\ last' = [Ev("renderWidget", i) EXCEPT !.handler = h, !.wid = r.ret, !.caught = r.caught,
                                              !.threw = r.threw, !.vendorCalls = r.vendorCalls,
                                              !.recorded = (r.tw # turnstileWidgets)]
  /\ loadedCache' = ReadLoaded(h)
  /\ UNCHANGED <<serviceVars, store, loadVars, recreateTimers>>

\* reset(instanceId) on handler h; throws: window.turnstile.reset throws; container: the
\* element with data-instance-id = instanceId is in the document
reset(h, i, throws, container) ==
  IF ~isTurnstileLoaded(h) \/ i \notin DOMAIN turnstileWidgets[h]
  THEN [store |-> store, timers |-> recreateTimers, caught |-> FALSE, threw |-> FALSE,
        vendorCalls |-> <<>>]
  ELSE LET widgetId == turnstileWidgets[h][i]
           cleared == setVerified(clearToken(store, i), i, FALSE) IN
       IF throws
       THEN [store |-> cleared, timers |-> recreateTimers, caught |-> TryCatch(TRUE).caught,
             threw |-> TryCatch(TRUE).escaped, vendorCalls |-> <<"reset">>]
       ELSE [store |-> cleared,
             timers |-> IF container
                        THEN Append(recreateTimers, [h |-> h, inst |-> i, widgetId |-> widgetId])
                        ELSE recreateTimers,
             caught |-> FALSE, threw |-> FALSE, vendorCalls |-> <<"reset">>]

Reset(h, i, throws, container) ==
  LET r == reset(h, i, throws, container) IN
  /\ Len(r.timers) <= MaxTimers
  /\ (throws \/ ~container) => r.vendorCalls # <<>>
  /\ store' = r.store
  /\ recreateTimers' = r.timers
  /\ loadedCache' = ReadLoaded(h)
  /\ last' = [Ev("reset", i) EXCEPT !.caught = r.caught, !.threw = r.threw,
                                    !.vendorCalls = r.vendorCalls]
  /\ UNCHANGED <<serviceVars, loadVars, turnstileWidgets, vendor>>

\* the setTimeout callback of reset, 100 ms later: remove the widget and render a new one;
\* removeThrows: window.turnstile.remove throws; renderThrows: window.turnstile.render throws
RecreateWidget(removeThrows, renderThrows) ==
  /\ recreateTimers # <<>>
  /\ LET tm == Head(recreateTimers) IN
     IF removeThrows
     THEN /\ last' = [Ev("recreateWidget", tm.inst) EXCEPT
                        !.caught = TryCatch(TRUE).caught, !.threw = TryCatch(TRUE).escaped,
                        !.vendorCalls = <<"remove">>]
          /\ ~renderThrows
          /\ UNCHANGED <<serviceVars, turnstileWidgets, vendor>>
     ELSE LET removed == [vendor EXCEPT ![tm.widgetId] = RemovedWidget]
              deleted == [turnstileWidgets EXCEPT ![tm.h] = Del(@, tm.inst)]
              r == renderWidget(tm.h, tm.inst, "recreate", renderThrows, deleted, removed) IN
          /\ renderThrows \/ Len(vendor) < MaxWidgets
          /\ turnstileWidgets' = r.tw
          /\ vendor' = r.vendor
          /\ last' = [Ev("recreateWidget", tm.inst) EXCEPT
                        !.wid = r.ret, !.caught = r.caught, !.threw = r.threw,
                        !.vendorCalls = <<"remove">> \o r.vendorCalls,
                        !.recorded = (r.tw # deleted)]
  /\ recreateTimers' = Tail(recreateTimers)
  /\ UNCHANGED <<serviceVars, store, loadVars, loadedCache>>

\* ---------------------------------------------------------------- widget callbacks
\* what the component emits
Emit(name, t, e) == [name |-> name, tok |-> t, err |-> e]

\* onSuccess as passed to renderWidget: the component's onTurnstileSuccess, or the arrow
\* function reset passes for the widget it re-creates
onSuccess(kind, s, i, t) ==
  IF kind = "mount"
  THEN [store |-> s, emits |-> <<Emit("success", t, NullError)>>]
  ELSE [store |-> setToken(s, i, t), emits |-> <<>>]

\* onError as passed to renderWidget: onTurnstileError, or the arrow function of reset
onError(kind, s, i, error) ==
  IF kind = "mount"
  THEN [store |-> s, emits |-> <<Emit("error", "-", error)>>]
  ELSE [store |-> setError(s, error), emits |-> <<>>]

\* onExpired as passed to renderWidget: onTurnstileExpired, or the arrow function of reset
onExpired(kind, s, i) ==
  IF kind = "mount"
  THEN [store |-> s, emits |-> <<Emit("expired", "-", NullError)>>]
  ELSE [store |-> clearToken(s, i), emits |-> <<>>]

\* a success callback that keeps the token the instance already has
successCallback_KeepFirst(kind, s, i, t) ==
  onSuccess(kind, IF getToken(s, i) = Null THEN setToken(s, i, t) ELSE s, i, t)

\* widgetParams.callback
successCallback(kind, s, i, t) == onSuccess(kind, setToken(s, i, t), i, t)

\* the expiry callback that only notifies the caller
expiredCallback_NotifyOnly(kind, s, i) == onExpired(kind, s, i)

\* widgetParams['expired-callback']
expiredCallback(kind, s, i) == onExpired(kind, clearToken(s, i), i)

\* the error callback passing on what the vendor gave it
errorCallback_Raw(kind, s, i, e) ==
  LET r == onError(kind, setError(s, e), i, e) IN
  [store |-> r.store, emits |-> r.emits, onError |-> <<e>>]

\* widgetParams['error-callback']: the store part and the argument handed to onError
errorCallback(kind, s, i, e) ==
  LET errorObj == NormalizeError(e)
      r == onError(kind, setError(s, errorObj), i, errorObj) IN
  [store |-> r.store, emits |-> r.emits, onError |-> <<errorObj>>]

\* the vendor calls widgetParams.callback(token) of a live widget
VendorSuccess(w, t) ==
  /\ w \in LiveWidgets
  /\ LET r == successCallback(vendor[w].kind, store, vendor[w].inst, t) IN
     /\ store' = r.store
     /\ last' = [Ev("success", vendor[w].inst) EXCEPT
                   !.tok = t, !.emits = r.emits, !.before = getToken(store, vendor[w].inst)]
  /\ UNCHANGED <<serviceVars, loadVars, loadedCache, widgetVars>>

\* the vendor calls widgetParams['expired-callback']() of a live widget
VendorExpired(w) ==
  /\ w \in LiveWidgets
  /\ LET r == expiredCallback(vendor[w].kind, store, vendor[w].inst) IN
     /\ store' = r.store
     /\ last' = [Ev("expired", vendor[w].inst) EXCEPT
                   !.emits = r.emits, !.before = getToken(store, vendor[w].inst)]
  /\ UNCHANGED <<serviceVars, loadVars, loadedCache, widgetVars>>

\* the vendor calls widgetParams['error-callback'](error) of a live widget
VendorError(w, e) ==
  /\ w \in LiveWidgets
  /\ LET r == errorCallback(vendor[w].kind, store, vendor[w].inst, e) IN
     /\ store' = r.store
     /\ last' = [Ev("error", vendor[w].inst) EXCEPT !.err = e, !.emits = r.emits,
                                                    !.onError = r.onError]
  /\ UNCHANGED <<serviceVars, loadVars, loadedCache, widgetVars>>

\* ---------------------------------------------------------------- store actions
\* the actions of the store called by any code holding useCaptchaStore()
SetToken(i, t) ==
  /\ store' = setToken(store, i, t)
  /\ last' = Ev("setToken", i)
  /\ UNCHANGED <<serviceVars, loadVars, loadedCache, widgetVars>>

ClearToken(i) ==
  /\ store' = clearToken(store, i)
  /\ last' = Ev("clearToken", i)
  /\ UNCHANGED <<serviceVars, loadVars, loadedCache, widgetVars>>

SetVerified(i, v) ==
  /\ store' = setVerified(store, i, v)
  /\ last' = Ev("setVerified", i)
  /\ UNCHANGED <<serviceVars, loadVars, loadedCache, widgetVars>>

SetVerifying(v) ==
  /\ store' = setVerifying(store, v)
  /\ last' = Ev("setVerifying", "-")
  /\ UNCHANGED <<serviceVars, loadVars, loadedCache, widgetVars>>

StoreReset ==
  /\ store' = store_reset(store)
  /\ last' = Ev("store.reset", "-")
  /\ UNCHANGED <<serviceVars, loadVars, loadedCache, widgetVars>>

\* ---------------------------------------------------------------- service actions
\* a call of apiCoreService.request
Request(params, env) ==
  /\ apiCall' = [phase |-> "done", params |-> params, env |-> env, out |-> request(params, env)]
  /\ UNCHANGED <<store, loadVars, loadedCache, widgetVars, last, tr, forms>>

\* a call of getItemParams
GetItemParams(itemKey, options) ==
  /\ tr.phase = "idle"
  /\ tr' = [phase |-> "getItemParams", itemKey |-> itemKey, options |-> options,
            out |-> getItemParams(itemKey, options)]
  /\ UNCHANGED <<store, loadVars, loadedCache, widgetVars, last, apiCall, forms>>

\* a call of processTranslations
ProcessTranslations(source, options) ==
  /\ tr.phase = "idle"
  /\ \E out \in processTranslations(source, options) :
       tr' = [phase |-> "processTranslations", source |-> source, options |-> options,
              out |-> out]
  /\ UNCHANGED <<store, loadVars, loadedCache, widgetVars, last, apiCall, forms>>

\* ---------------------------------------------------------------- enrollment actions
\* reset(instanceId) and setVerifying(false) on the handler that useCaptchaHandler() has
\* just made: its turnstileWidgets is the empty record of its construction
newHandlerReset(s, i) ==
  LET widgets == EmptyRecord
      afterReset == IF ~turnstile \/ i \notin DOMAIN widgets
                    THEN s
                    ELSE setVerified(clearToken(s, i), i, FALSE) IN
  setVerifying(afterReset, FALSE)

\* the start of preEnroll or enrollAsPartner that sends whatever getToken returns
enrollStart_NoTokenCheck(f, s, i, submit) ==
  [es |-> startSubmitting(f.es),
   pending |-> [f.pending EXCEPT ![FreeSlot(f)] = PendingCall(getToken(s, i), submit)],
   ret |-> "sent", tok |-> getToken(s, i)]

\* preEnroll / enrollAsPartner up to the await: without a token finishSubmitting(false, 422)
\* and return, else startSubmitting() and the request with the token
enrollStart(f, s, i, submit) ==
  LET captchaToken == getToken(s, i) IN
  IF ~Truthy(captchaToken)
  THEN [es |-> finishSubmitting(f.es, FALSE, 422), pending |-> f.pending,
        ret |-> "422", tok |-> "-"]
  ELSE [es |-> startSubmitting(f.es),
        pending |-> [f.pending EXCEPT ![FreeSlot(f)] = PendingCall(captchaToken, submit)],
        ret |-> "sent", tok |-> captchaToken]

\* what follows an unsuccessful response: preEnroll clears the token in the store,
\* enrollAsPartner resets through a new handler
afterFailure(kind, s, i) ==
  IF kind = "preEnroll"
  THEN setVerified(clearToken(s, i), i, FALSE)
  ELSE newHandlerReset(s, i)

\* handleSubmit whose guard never holds
submitGuard_Open(f) == FALSE

\* the guard of handleSubmit: isSubmitting.value || store.isLoading
submitGuard(f) == f.isSubmitting \/ f.es.loading

\* a submit event of the form of kind: handleSubmit up to its await
HandleSubmit(kind) ==
  LET f == forms[kind]
      i == InstanceOf(kind) IN
  IF submitGuard(f)
  THEN /\ last' = [Ev("handleSubmit", i) EXCEPT !.ret = "ignored", !.before = getToken(store, i)]
       /\ UNCHANGED <<store, loadVars, loadedCache, widgetVars, apiCall, tr, forms>>
  ELSE IF ~isVerified(store, i)
  THEN /\ forms' = [forms EXCEPT ![kind].isSubmitting = FALSE]
       /\ last' = [Ev("handleSubmit", i) EXCEPT !.ret = "unverified",
                                                !.before = getToken(store, i)]
       /\ UNCHANGED <<store, loadVars, loadedCache, widgetVars, apiCall, tr>>
  ELSE LET r == enrollStart(f, store, i, TRUE) IN
       /\ InFlight(f) # Slots
       /\ forms' = [forms EXCEPT ![kind] = [isSubmitting |-> r.ret = "sent", es |-> r.es,
                                            pending |-> r.pending]]
       /\ last' = [Ev("handleSubmit", i) EXCEPT !.ret = r.ret, !.tok = r.tok,
                                                !.before = getToken(store, i)]
       /\ UNCHANGED <<store, loadVars, loadedCache, widgetVars, apiCall, tr>>

\* preEnroll or enrollAsPartner called by any code holding the composable, up to its await
Enroll(kind) ==
  LET f == forms[kind]
      i == InstanceOf(kind)
      r == enrollStart(f, store, i, FALSE) IN
  /\ InFlight(f) # Slots
  /\ forms' = [forms EXCEPT ![kind].es = r.es, ![kind].pending = r.pending]
  /\ last' = [Ev(kind, i) EXCEPT !.ret = r.ret, !.tok = r.tok, !.before = getToken(store, i)]
  /\ UNCHANGED <<store, loadVars, loadedCache, widgetVars, apiCall, tr>>

\* the request of slot p settles with the outcome of fetch: the rest of the enrollment
\* action, and of handleSubmit when it awaits the call
SubscribeSettles(kind, p, fetch) ==
  LET f == forms[kind]
      i == InstanceOf(kind)
      response == request(subscribeParams, [token |-> Null, fetch |-> fetch]).value IN
  /\ f.pending[p].busy
  /\ forms' = [forms EXCEPT ![kind] =
                 [isSubmitting |-> IF f.pending[p].submit THEN FALSE ELSE f.isSubmitting,
                  es |-> finishSubmitting(f.es, response.status, response.statusCode),
                  pending |-> [f.pending EXCEPT ![p] = NoCall]]]
  /\ store' = IF response.status THEN store ELSE afterFailure(kind, store, i)
  /\ last' = [Ev(kind, i) EXCEPT !.ret = IF response.status THEN "success" ELSE "failed",
                                 !.tok = f.pending[p].token]
  /\ UNCHANGED <<loadVars, loadedCache, widgetVars, apiCall, tr>>

\* the awaited request of slot p throws: the catch block of the enrollment action
SubscribeThrows(kind, p) ==
  LET f == forms[kind]
      i == InstanceOf(kind) IN
  /\ f.pending[p].busy
  /\ forms' = [forms EXCEPT ![kind] =
                 [isSubmitting |-> IF f.pending[p].submit THEN FALSE ELSE f.isSubmitting,
                  es |-> finishSubmitting(f.es, FALSE, 500),
                  pending |-> [f.pending EXCEPT ![p] = NoCall]]]
  /\ store' = newHandlerReset(store, i)
  /\ last' = [Ev(kind, i) EXCEPT !.ret = "exception", !.tok = f.pending[p].token]
  /\ UNCHANGED <<loadVars, loadedCache, widgetVars, apiCall, tr>>


\* ---------------------------------------------------------------- specifications
Next ==
  \/ \E h \in Handlers : EnsureInitialized(h)
  \/ \E c \in 1..MaxCalls : PollTick(c)
  \/ \E c \in 1..MaxCalls : PollTimeout(c)
  \/ \E api \in BOOLEAN : ScriptOnload(api)
  \/ ScriptOnerror
  \/ OnloadTurnstileCb
  \/ PostOnloadCheck
  \/ \E h \in Handlers, i \in Instances, throws \in BOOLEAN : RenderWidget(h, i, throws)
  \/ \E h \in Handlers, i \in Instances, throws, container \in BOOLEAN :
        Reset(h, i, throws, container)
  \/ \E removeThrows, renderThrows \in BOOLEAN : RecreateWidget(removeThrows, renderThrows)
  \/ \E w \in 1..MaxWidgets, t \in Tokens : VendorSuccess(w, t)
  \/ \E w \in 1..MaxWidgets : VendorExpired(w)
  \/ \E w \in 1..MaxWidgets, e \in RawErrors : VendorError(w, e)

Spec == Init /\ [][Next]_vars

\* script loading alone: the ensureInitialized() calls, their timers and the script's events
NextLoad ==
  \/ \E h \in Handlers : EnsureInitialized(h)
  \/ \E c \in 1..MaxCalls : PollTick(c)
  \/ \E c \in 1..MaxCalls : PollTimeout(c)
  \/ \E api \in BOOLEAN : ScriptOnload(api)
  \/ ScriptOnerror
  \/ OnloadTurnstileCb
  \/ PostOnloadCheck

SpecLoad == Init /\ [][NextLoad]_vars

\* the store alone, under any sequence of calls of its actions
NextStore ==
  \/ \E i \in Instances, t \in Tokens \cup {Null} : SetToken(i, t)
  \/ \E i \in Instances : ClearToken(i)
  \/ \E i \in Instances, v \in BOOLEAN : SetVerified(i, v)
  \/ \E v \in BOOLEAN : SetVerifying(v)
  \/ StoreReset

SpecStore == Init /\ [][NextStore]_vars

\* apiCoreService.request alone, for every input and every outcome of fetch
NextApi == \E params \in ApiParams, env \in ApiEnvs : Request(params, env)

SpecApi == Init /\ [][NextApi]_vars

\* getItemParams alone, for every item key and every params and itemsParams
NextItemParams == \E itemKey \in ItemKeys, options \in ItemOptions : GetItemParams(itemKey, options)

SpecItemParams == Init /\ [][NextItemParams]_vars

\* processTranslations alone, for every source and every combination of options
NextTranslations ==
  /\ tr.phase = "idle"
  /\ \E source \in Sources, options \in TranslationOptions :
       ProcessTranslations(source, options)

SpecTranslations == Init /\ [][NextTranslations]_vars

\* processTranslations called with no options
NextPlainTranslations ==
  /\ tr.phase = "idle"
  /\ \E source \in Sources : ProcessTranslations(source, NoOptions)

SpecPlainTranslations == Init /\ [][NextPlainTranslations]_vars

\* the two forms on a page that loads the vendor script: the submit events, the responses,
\* and the captcha store changing under them
NextSubmit ==
  \/ \E kind \in Kinds : HandleSubmit(kind)
  \/ \E kind \in Kinds, p \in Slots, fetch \in Fetches : SubscribeSettles(kind, p, fetch)
  \/ \E kind \in Kinds, p \in Slots : SubscribeThrows(kind, p)
  \/ \E i \in Instances, t \in Tokens : SetToken(i, t)
  \/ \E i \in Instances : ClearToken(i)
  \/ \E i \in Instances : SetVerified(i, TRUE)
  \/ EnsureInitialized("h1")
  \/ ScriptOnload(TRUE)

SpecSubmit == Init /\ [][NextSubmit]_vars

\* preEnroll alone, called by any code, with the captcha token coming and going
NextPreEnroll ==
  \/ Enroll("preEnroll")
  \/ \E p \in Slots, fetch \in Fetches : SubscribeSettles("preEnroll", p, fetch)
  \/ \E p \in Slots : SubscribeThrows("preEnroll", p)
  \/ \E t \in Tokens : SetToken("a", t)
  \/ ClearToken("a")

\* the awaited request of slot p of preEnroll ends, either way
SubscribeEnds(p) ==
  \/ \E fetch \in Fetches : SubscribeSettles("preEnroll", p, fetch)
  \/ SubscribeThrows("preEnroll", p)

\* every request in flight settles or throws in the end: fetch resolves or rejects
SpecPreEnrollFair ==
  Init /\ [][NextPreEnroll]_vars /\ \A p \in Slots : WF_vars(SubscribeEnds(p))

\* ---------------------------------------------------------------- claims
\* no timer of script loading is pending, the script element has fired onload or onerror,
\* and the vendor has nothing left to call
LoadQuiescent ==
  /\ scriptState \in {"loaded", "failed"}
  /\ ~postOnload
  /\ \A c \in 1..Len(calls) : ~calls[c].timeout
  /\ ~(scriptState = "loaded" /\ turnstile /\ ~cbCalled)

\* C1: right after reset(instanceId) returns, isVerified(instanceId) is false and
\* getToken(instanceId) is null, on whichever handler and in whichever state it was called
C1_ResetClears ==
  last.op = "reset" => (getToken(store, last.inst) = Null /\ ~isVerified(store, last.inst))

\* C2: whatever ensureInitialized() calls are made, overlapping or not and from any
\* handler, the vendor script element is appended to the document at most once
C2_ScriptAppendedOnce == scriptTags <= 1

C2_Witness ==
  /\ scriptTags = 1
  /\ Len(calls) >= 2
  /\ calls[1].mode = "inject" /\ calls[1].result = "none"
  /\ calls[2].mode = "poll" /\ calls[2].result = "none"

\* C3: when script loading fails (script error, or the vendor global still absent when
\* the poll timeout fires) ensureInitialized() returns false and never rejects, and at
\* that moment the store has hasError true and error set to the Error of the failure
C3_FailureResolvesFalse ==
  /\ \A c \in 1..Len(calls) : calls[c].result \in {"none", "true", "false"}
  /\ scriptState = "failed" => calls[onloadCb].result = "false"
  /\ \A c \in 1..Len(calls) :
       (calls[c].mode = "poll" /\ ~calls[c].timeout /\ ~turnstile) => calls[c].result = "false"
  /\ (last.op = "ensureInitialized" /\ last.ret = "false") =>
       (store.hasError /\ store.error \in {LoadError, TimeoutError})

C3_Witness ==
  /\ last.op = "ensureInitialized" /\ last.ret = "false"
  /\ store.error = TimeoutError
  /\ scriptState = "failed"

\* C4: every ensureInitialized() call settles: once the script element has fired its
\* event and every timer of script loading has run, no call is still pending
C4_EveryCallSettles ==
  LoadQuiescent => \A c \in 1..Len(calls) : calls[c].result # "none"

\* C5: for every instance id, the verified flag is true exactly when a non-empty token
\* is stored for it
C5_VerifiedIffToken ==
  \A i \in Instances : isVerified(store, i) <=> (getToken(store, i) # Null)

\* C6: after the vendor error callback of an instance's widget, that
\* instance's token is null and its verified flag is false
C6_ErrorClearsToken ==
  last.op = "error" => (getToken(store, last.inst) = Null /\ ~isVerified(store, last.inst))

\* C7: after the vendor success callback with token t of any widget of an instance (the
\* one rendered at mount or one re-created by reset), getToken is t, isVerified is true
\* and the component has emitted success with t
C7_SuccessStoresAndEmits ==
  last.op = "success" =>
    /\ getToken(store, last.inst) = last.tok
    /\ isVerified(store, last.inst)
    /\ last.emits = <<Emit("success", last.tok, NullError)>>

\* the instance has no token and is not verified
Cleared(s, i) == getToken(s, i) = Null /\ ~isVerified(s, i)

\* C8: after the vendor expiry callback of an instance's widget getToken is null and
\* isVerified is false, and an instance without token stays so until a success callback
\* for that instance
C8_ExpiryClearsUntilSuccess ==
  /\ [](last.op = "expired" => Cleared(store, last.inst))
  /\ [][\A i \in Instances :
          (Cleared(store, i) /\ ~Cleared(store', i)) => (last'.op = "success" /\ last'.inst = i)]_vars

C8_Witness ==
  /\ last.op = "expired"
  /\ last.inst \in DOMAIN store.tokens /\ store.tokens[last.inst] = Null
  /\ \E w \in LiveWidgets : vendor[w].inst = last.inst

\* C9: after the vendor error callback with any value, the store holds an Error (the
\* value itself, or an Error made of its string) with hasError true, and the caller's
\* error handler has been called exactly once, with that Error
C9_ErrorNormalized ==
  last.op = "error" =>
    /\ store.hasError
    /\ store.error.tag = "Error"
    /\ store.error.message = last.err.message
    /\ last.onError = <<store.error>>
    /\ last.emits \in {<<>>, <<Emit("error", "-", store.error)>>}

C9_Witness ==
  /\ last.op = "error"
  /\ last.err.tag = "string"
  /\ store.hasError /\ store.error.tag = "Error"
  /\ last.onError = <<store.error>>

\* C10: renderWidget, reset and the delayed re-create step of reset never throw; when the
\* vendor API is not loaded or a vendor call throws before the widget is rendered, no
\* widget id is returned and no widget handle is recorded
C10_NeverThrows ==
  /\ last.op \in {"renderWidget", "reset", "recreateWidget"} => ~last.threw
  /\ (last.op \in {"renderWidget", "recreateWidget"} /\ (last.caught \/ last.vendorCalls = <<>>)) =>
       (last.wid = Undefined /\ ~last.recorded)

C10_Witness ==
  /\ last.op = "recreateWidget"
  /\ last.caught
  /\ last.vendorCalls = <<"remove", "render">>
  /\ last.wid = Undefined
\* C11: a step made for one instance (render, success, expiry, error, reset, the delayed
\* re-create) leaves the token and the verified flag of every other instance as they were
C11_InstancesIndependent ==
  [][\A j \in Instances :
       j # last'.inst => (getToken(store', j) = getToken(store, j)
                          /\ isVerified(store', j) = isVerified(store, j))]_vars

C11_Witness ==
  /\ last.op = "reset"
  /\ last.vendorCalls = <<"reset">>
  /\ \E j \in Instances \ {last.inst} : getToken(store, j) \in Tokens /\ isVerified(store, j)

\* C12: an instance id that has an entry in the store keeps it through every handler
\* operation and vendor callback, also when its widget handle is removed
C12_StoreEntryPersists ==
  [][\A i \in Instances : i \in DOMAIN store.tokens => i \in DOMAIN store'.tokens]_vars

C12_Witness ==
  /\ last.op = "recreateWidget"
  /\ last.caught
  /\ last.inst \in DOMAIN store.tokens
  /\ \A h \in Handlers : last.inst \notin DOMAIN turnstileWidgets[h]
\* C13: when fetch rejects or the body is not JSON, request resolves with exactly the
\* generic error and navigates nowhere
C13_FailureGivesGenericError ==
  (apiCall.phase = "done" /\ (apiCall.env.fetch.kind = "rejects" \/ apiCall.env.fetch.json.kind = "rejects")) =>
    /\ apiCall.out.settled = "resolved"
    /\ apiCall.out.value = [statusCode |-> 500, status |-> FALSE, code |-> Null,
                        detail |-> "Unknown error", data |-> "{}"]
    /\ apiCall.out.pushes = <<>>

C13_Witness ==
  /\ apiCall.phase = "done"
  /\ apiCall.env.fetch.kind = "response" /\ apiCall.env.fetch.status = 401
  /\ apiCall.env.fetch.json.kind = "rejects"
  /\ useAuthOf(apiCall.params)
  /\ apiCall.out.value = genericError

\* C14: request navigates to /logout, once, exactly when authentication is enabled and the
\* HTTP status is 401, and then returns the envelope parsed from the body with statusCode 401
C14_LogoutIff401 ==
  apiCall.phase = "done" =>
    LET is401 == /\ useAuthOf(apiCall.params)
                 /\ apiCall.env.fetch.kind = "response"
                 /\ apiCall.env.fetch.status = 401 IN
    /\ apiCall.out.pushes = IF is401 THEN <<"/logout">> ELSE <<>>
    /\ (is401 /\ apiCall.env.fetch.json.kind = "object") =>
         LET body == apiCall.env.fetch.json.obj IN
         /\ apiCall.out.value.statusCode = 401
         /\ apiCall.out.value.status = body.status
         /\ apiCall.out.value.code = (IF "code" \in DOMAIN body /\ body.code # "" THEN body.code ELSE Null)
         /\ apiCall.out.value.detail = body.detail
         /\ apiCall.out.value.data = body.data

\* C15: the request carries Authorization 'JWT <stored token>' exactly when useAuth is true
\* or left out; with useAuth false it carries Content-Type and Accept only
C15_AuthHeaderIffUseAuth ==
  apiCall.phase = "done" =>
    /\ Len(apiCall.out.sent) = 1
    /\ LET headers == apiCall.out.sent[1].headers IN
       IF apiCall.params.useAuth \in {"true", "undefined"}
       THEN /\ DOMAIN headers = {"ContentType", "Accept", "Authorization"}
            /\ headers.Authorization = "JWT " \o apiCall.env.token
       ELSE /\ DOMAIN headers = {"ContentType", "Accept"}
            /\ \A other \in ApiEnvs :
                  request(apiCall.params, other).sent = apiCall.out.sent

C15_Witness ==
  /\ apiCall.phase = "done"
  /\ apiCall.params.useAuth = "false"
  /\ apiCall.env.token = "test-token"
  /\ DOMAIN apiCall.out.sent[1].headers = {"ContentType", "Accept"}
\* C19: getItemParams returns the global params overridden key by key by the entry of
\* itemsParams that belongs to the item (the one at that index of an array, the key being
\* the index or its decimal numeral; the one under that string key of an object); without
\* such an entry it returns the global params themselves, undefined when there are none
C19_ItemParamsMerged ==
  tr.phase = "getItemParams" =>
    LET itemKey == tr.itemKey
        ip == tr.options.itemsParams
        params == tr.options.params
        index == IF itemKey.type = "number" THEN itemKey.n
                 ELSE IF itemKey.s \in {"0"} THEN 0
                 ELSE IF itemKey.s \in {"1", "01"} THEN 1
                 ELSE IF itemKey.s \in {"2"} THEN 2
                 ELSE IF itemKey.s \in {"3"} THEN 3
                 ELSE -1
        entry == IF ip.kind = "array" /\ index \in 0..(Len(ip.arr) - 1)
                 THEN Defined(ip.arr[index + 1])
                 ELSE IF ip.kind = "object" /\ itemKey.type = "string"
                         /\ itemKey.s \in DOMAIN ip.obj
                 THEN Defined(ip.obj[itemKey.s])
                 ELSE JsUndefined IN
    IF entry.def
    THEN /\ tr.out.def
         /\ DOMAIN tr.out.obj = (DOMAIN params.obj) \cup (DOMAIN entry.obj)
         /\ \A k \in DOMAIN entry.obj : tr.out.obj[k] = entry.obj[k]
         /\ \A k \in (DOMAIN params.obj) \ (DOMAIN entry.obj) : tr.out.obj[k] = params.obj[k]
    ELSE tr.out = params

C19_Witness ==
  /\ tr.phase = "getItemParams"
  /\ tr.itemKey = StringKey("01")
  /\ tr.options.itemsParams.kind = "array"
  /\ tr.options.params.def
  /\ tr.out = Defined([n |-> "i1", j |-> "i1", k |-> "g"])

\* C16: for every source and every specificKey present in the source, whatever its value,
\* processTranslations returns just that entry ([{id, value}] when asArray, {key: value}
\* otherwise), translated with the global params overridden by the matching itemsParams entry
C16_SpecificKeySingleEntry ==
  (/\ tr.phase = "processTranslations"
   /\ tr.options.specificKey # "undefined"
   /\ Lookup(tr.source, tr.options.specificKey).found) =>
    LET key == tr.options.specificKey
        value == rt(Lookup(tr.source, key).value,
                    getItemParams(StringKey(key), tr.options).obj) IN
    tr.out = IF tr.options.asArray
             THEN ArrayOutput(<<[id |-> key, props |-> [value |-> value], marked |-> NoMark]>>)
             ELSE ObjectOutput(key :> [nested |-> FALSE, value |-> value], NoMark)

\* C17 as stated: for every source and every combination of options, specificKey included,
\* the output is an array exactly when the source is an array, or every key of the source
\* object is a numeric string, or asArray is true
C17_ShapeFollowsSource ==
  tr.phase = "processTranslations" =>
    ((tr.out.shape = "array") =
       (\/ tr.source.kind = "array"
        \/ \A i \in DOMAIN tr.source.entries : ~parseInt(tr.source.entries[i].key).nan
        \/ tr.options.asArray))

\* C17: for a source with data and no specificKey whose entry is truthy, the output is an
\* array exactly when the source is an array, or every key of the source object is numeric
\* for parseInt, or asArray is true, and an object otherwise; for an empty source and for a
\* specificKey whose entry is truthy the output is an array exactly when asArray is true
C17_ShapeByBranch ==
  tr.phase = "processTranslations" =>
    LET specific == /\ tr.options.specificKey # "undefined"
                    /\ TruthyValue(Lookup(tr.source, tr.options.specificKey))
        numeric == /\ tr.source.kind = "object"
                   /\ \A i \in DOMAIN tr.source.entries :
                        ~parseInt(tr.source.entries[i].key).nan IN
    (tr.out.shape = "array") =
      IF Len(tr.source.entries) = 0 \/ specific
      THEN tr.options.asArray
      ELSE tr.source.kind = "array" \/ numeric \/ tr.options.asArray

\* an object with the keys "2" and "01", no specificKey and no asArray came out as an array
\* of two records
C17_Witness ==
  /\ tr.phase = "processTranslations"
  /\ tr.source.kind = "object"
  /\ Len(tr.source.entries) = 2
  /\ tr.source.entries[1].key = "2"
  /\ tr.source.entries[2].key = "01"
  /\ tr.options.specificKey = "undefined"
  /\ ~tr.options.asArray
  /\ tr.out.shape = "array"
  /\ Len(tr.out.items) = 2

\* C18: for every array source the output is non-decreasing by the sortBy property when
\* sortBy is given, ties keeping the source order, and else non-decreasing by numeric id;
\* with reverse the output is exactly the reverse of that sorted sequence
C18_ArrayOutputSorted ==
  (/\ tr.phase = "processTranslations"
   /\ tr.source.kind = "array"
   /\ Len(tr.source.entries) > 0
   /\ ~(/\ tr.options.specificKey # "undefined"
        /\ TruthyValue(Lookup(tr.source, tr.options.specificKey)))) =>
    LET sorted == IF tr.options.reverse THEN ReverseOf(tr.out.items) ELSE tr.out.items
        position(x) == parseInt(x.id).n
        less(a, b) ==
          IF tr.options.sortBy = "undefined"
          THEN position(a) < position(b)
          ELSE /\ tr.options.sortBy \in DOMAIN a.props
               /\ tr.options.sortBy \in DOMAIN b.props
               /\ Rank(a.props[tr.options.sortBy]) < Rank(b.props[tr.options.sortBy]) IN
    \A i, j \in DOMAIN sorted :
      i < j => /\ ~less(sorted[j], sorted[i])
               /\ ~less(sorted[i], sorted[j]) => position(sorted[i]) < position(sorted[j])

C21_LastCallbackWins ==
  [][/\ last'.op = "success" =>
          /\ last'.before = getToken(store, last'.inst)
          /\ getToken(store', last'.inst) = last'.tok
          /\ isVerified(store', last'.inst)
     /\ last'.op = "expired" =>
          /\ last'.before = getToken(store, last'.inst)
          /\ Cleared(store', last'.inst)]_vars

\* a success with t2 for an instance that held t1 from an earlier success
C21_Witness ==
  /\ last.op = "success"
  /\ last.before = "t1"
  /\ last.tok = "t2"
  /\ getToken(store, last.inst) = "t2"

\* C22: reset(instanceId) on an instance that has a rendered widget, with its container in
\* the document, invokes the vendor reset on the existing handle, and the delayed step that
\* follows removes the old widget through the vendor and renders a new one that is
\* recorded as the handle of the same instance id
C22_ResetRecreates ==
  /\ []((last.op = "reset" /\ \E w \in LiveWidgets : vendor[w].inst = last.inst) =>
          last.vendorCalls = <<"reset">>)
  /\ [][(last'.op = "recreateWidget" /\ ~last'.caught) =>
          /\ ~vendor'[Head(recreateTimers).widgetId].live
          /\ last'.vendorCalls = <<"remove", "render">>
          /\ last'.recorded
          /\ vendor'[last'.wid].live
          /\ vendor'[last'.wid].inst = last'.inst
          /\ turnstileWidgets'[Head(recreateTimers).h][last'.inst] = last'.wid]_vars

\* C23: with a transform given, the array path hands it every record once, with the item key
\* and the raw item value, keeps what it returns as the output record and sorts and reverses
\* the returned records; the object path hands it the whole result once, with '' and the
\* whole raw source, and returns what it returns
C23_TransformApplied ==
  (/\ tr.phase = "processTranslations"
   /\ tr.options.transform = "mark"
   /\ Len(tr.source.entries) > 0
   /\ ~(/\ tr.options.specificKey # "undefined"
        /\ TruthyValue(Lookup(tr.source, tr.options.specificKey)))) =>
    LET entries == tr.source.entries
        params(e) == getItemParams(StringKey(e.key), tr.options).obj
        position(x) == CHOOSE i \in DOMAIN entries : entries[i].key = x.id IN
    IF tr.out.shape = "array"
    THEN /\ Len(tr.out.items) = Len(entries)
         /\ \A i \in DOMAIN entries :
              \E x \in DOMAIN tr.out.items :
                LET e == entries[i]
                    record == tr.out.items[x] IN
                /\ record.id = e.key
                /\ record.marked = Mark(e.key, e.value)
                /\ IF e.value.kind = "object"
                   THEN record.props =
                          [k \in DOMAIN e.value.props |-> rt(Leaf(e.value.props[k]), params(e))]
                   ELSE record.props = [value |-> rt(e.value, params(e)),
                                        title |-> rt(Leaf(""), EmptyRecord)]
         /\ tr.options.sortBy = "title" =>
              LET sorted == IF tr.options.reverse THEN ReverseOf(tr.out.items)
                            ELSE tr.out.items IN
              \A x, y \in DOMAIN sorted :
                x < y => \/ Rank(sorted[x].props.title) < Rank(sorted[y].props.title)
                         \/ /\ Rank(sorted[x].props.title) = Rank(sorted[y].props.title)
                            /\ position(sorted[x]) < position(sorted[y])
    ELSE /\ tr.out.marked = Mark("", tr.source)
         /\ DOMAIN tr.out.obj = {entries[i].key : i \in DOMAIN entries}
         /\ \A i \in DOMAIN entries :
              LET e == entries[i] IN
              tr.out.obj[e.key] =
                IF e.value.kind = "object"
                THEN [nested |-> TRUE,
                      props |-> [k \in DOMAIN e.value.props |->
                                   rt(Leaf(e.value.props[k]), params(e))]]
                ELSE [nested |-> FALSE, value |-> rt(e.value, params(e))]

\* the array [{title: "m1"}, "m1"] sorted by title with a transform: the record of the
\* scalar, which has a title only once transform has returned it, comes first
C23_Witness ==
  /\ tr.phase = "processTranslations"
  /\ tr.options.transform = "mark"
  /\ tr.options.sortBy = "title"
  /\ ~tr.options.reverse
  /\ tr.source = [kind |-> "array",
                  entries |-> <<SourceEntry("0", ObjectValue([title |-> "m1"])),
                                SourceEntry("1", Leaf("m1"))>>]
  /\ tr.out.shape = "array"
  /\ tr.out.items[1].id = "1"
  /\ tr.out.items[1].marked = Mark("1", Leaf("m1"))
  /\ tr.out.items[2].id = "0"

\* C24: whenever ensureInitialized() returns true, by whichever path, the initialized flag
\* of the store is true and the vendor API is present
C24_TrueMeansInitialized ==
  (last.op = "ensureInitialized" /\ last.ret = "true") => (store.isInitialized /\ turnstile)

\* C25: once ensureInitialized() has returned true on a handler, renderWidget on that handler
\* with a valid container invokes the vendor render and returns the widget id it gives, also
\* when the vendor API was absent the first time the handler looked for it
C25_RenderAfterInitialized ==
  (/\ last.op = "renderWidget"
   /\ \E c \in 1..Len(calls) : calls[c].handler = last.handler /\ calls[c].result = "true"
   /\ ~last.caught) =>
    (last.vendorCalls = <<"render">> /\ last.wid # Undefined /\ last.recorded)

\* C26: at any time each instance id has at most one live vendor widget (rendered and not
\* removed), under any interleaving of renderWidget, resets and their delayed re-creations
C26_OneLiveWidget ==
  \A i \in Instances : Cardinality({w \in LiveWidgets : vendor[w].inst = i}) <= 1

\* C27: a request is sent only with the non-empty token that getToken returns for the
\* instance of the form when the action starts; when handleSubmit passes its guard on a
\* verified instance whose getToken is null, preEnroll / enrollAsPartner send no request
\* and leave the enrollment store with hasError true and statusCode '422'; handleSubmit on
\* an instance that is not verified sends nothing
C27_RequestOnlyWithToken ==
  /\ [](\A kind \in Kinds : \A p \in InFlight(forms[kind]) :
          Truthy(forms[kind].pending[p].token))
  /\ [][\A kind \in Kinds :
          /\ \A p \in InFlight(forms'[kind]) \ InFlight(forms[kind]) :
               /\ getToken(store, InstanceOf(kind)) # Null
               /\ forms'[kind].pending[p].token = getToken(store, InstanceOf(kind))
          /\ (last'.op = "handleSubmit" /\ last'.inst = InstanceOf(kind)) =>
               /\ ( /\ ~submitGuard(forms[kind])
                    /\ isVerified(store, InstanceOf(kind))
                    /\ getToken(store, InstanceOf(kind)) = Null ) =>
                    /\ forms'[kind].pending = forms[kind].pending
                    /\ forms'[kind].es.error
                    /\ forms'[kind].es.statusCode = "422"
                    /\ ~forms'[kind].es.loading
               /\ ~isVerified(store, InstanceOf(kind)) =>
                    /\ forms'[kind].pending = forms[kind].pending
                    /\ forms'[kind].es = forms[kind].es]_vars

\* enrollAsPartner has been called from handleSubmit on a verified instance without token
\* and has finished with 422, nothing in flight
C27_Witness ==
  /\ last.op = "handleSubmit" /\ last.inst = InstanceOf("enrollAsPartner")
  /\ last.ret = "422" /\ last.before = Null
  /\ forms["enrollAsPartner"].es.statusCode = "422"
  /\ forms["enrollAsPartner"].es.error
  /\ InFlight(forms["enrollAsPartner"]) = {}

\* C28: when preEnroll or enrollAsPartner completes with an unsuccessful result (a response
\* whose status is false, or an exception), getToken of its instance is null and
\* isVerified is false afterwards
C28_FailureClearsToken ==
  [][(last'.op \in Kinds /\ last'.ret \in {"failed", "exception"}) =>
       Cleared(store', last'.inst)]_vars

\* C29: a form has at most one request in flight; a submit that arrives while isSubmitting
\* is true or the store is loading changes neither the form nor the captcha store; and when
\* a handleSubmit call that took isSubmitting completes (at once without sending, or when
\* its request ends) isSubmitting is false
C29_OneSubmitAtATime ==
  /\ [](\A kind \in Kinds : Cardinality(InFlight(forms[kind])) <= 1)
  /\ [][\A kind \in Kinds :
          /\ ( /\ last'.op = "handleSubmit" /\ last'.inst = InstanceOf(kind)
               /\ submitGuard(forms[kind]) ) =>
               (forms' = forms /\ store' = store)
          /\ ( /\ last'.op = "handleSubmit" /\ last'.inst = InstanceOf(kind)
               /\ ~submitGuard(forms[kind])
               /\ InFlight(forms'[kind]) = InFlight(forms[kind]) ) =>
               ~forms'[kind].isSubmitting
          /\ (\E p \in InFlight(forms[kind]) \ InFlight(forms'[kind]) :
                forms[kind].pending[p].submit) =>
               ~forms'[kind].isSubmitting]_vars

\* a submit of the pre-enrollment form has been ignored while its request is in flight
C29_Witness ==
  /\ last.op = "handleSubmit" /\ last.inst = InstanceOf("preEnroll") /\ last.ret = "ignored"
  /\ forms["preEnroll"].isSubmitting
  /\ Cardinality(InFlight(forms["preEnroll"])) = 1

====
